---- MODULE Spec2Model ----
(***************************************************************************)
(* Model of scale_images.py: a batch driver (main) that lists the image    *)
(* files of an input directory and hands each to process_image, which      *)
(* writes one square PNG per size in SIZES with make_square_fit or         *)
(* make_square_cover.                                                      *)
(*                                                                         *)
(* Strings are sequences of one-character strings so that lower(), stem,   *)
(* suffix, the output file name and the sort order are computed, not       *)
(* assumed.  A directory is a set of entries with unique names.            *)
(***************************************************************************)
EXTENDS Integers, Sequences, FiniteSets, TLC

VARIABLES argv, fs, pc, mode, in_dir, out_dir, images, idx, img, k,
          exit_status, log, runs, fs_start, geo

vars == <<argv, fs, pc, mode, in_dir, out_dir, images, idx, img, k,
          exit_status, log, runs, fs_start, geo>>

batchVars == <<argv, fs, pc, mode, in_dir, out_dir, images, idx, img, k,
               exit_status, log, runs, fs_start>>

----------------------------------------------------------------------------
(* Bounds *)

MaxFiles == 2

MaxDim == 12

----------------------------------------------------------------------------
(* Characters and strings *)

UpperChars == <<"A","B","C","D","E","F","G","H","I","J","K","L","M",
                "N","O","P","Q","R","S","T","U","V","W","X","Y","Z">>

LowerChars == <<"a","b","c","d","e","f","g","h","i","j","k","l","m",
                "n","o","p","q","r","s","t","u","v","w","x","y","z">>

DigitChars == <<"0","1","2","3","4","5","6","7","8","9">>

\* code points of the characters the model uses
Ord(c) ==
  IF \E i \in 1..26 : UpperChars[i] = c
    THEN 64 + (CHOOSE i \in 1..26 : UpperChars[i] = c)
  ELSE IF \E i \in 1..26 : LowerChars[i] = c
    THEN 96 + (CHOOSE i \in 1..26 : LowerChars[i] = c)
  ELSE IF \E i \in 1..10 : DigitChars[i] = c
    THEN 47 + (CHOOSE i \in 1..10 : DigitChars[i] = c)
  ELSE CASE c = " " -> 32
         [] c = "-" -> 45
         [] c = "." -> 46
         [] c = "=" -> 61
         [] c = "_" -> 95

LowerChar(c) ==
  IF \E i \in 1..26 : UpperChars[i] = c
    THEN LowerChars[CHOOSE i \in 1..26 : UpperChars[i] = c]
    ELSE c

\* str.lower()
Lower(s) == [i \in 1..Len(s) |-> LowerChar(s[i])]

\* str.startswith(prefix)
StartsWith(s, prefix) ==
  /\ Len(s) >= Len(prefix)
  /\ SubSeq(s, 1, Len(prefix)) = prefix

\* s.split("=", 1)[1] for a string that contains "="
AfterFirstEq(s) ==
  LET i == CHOOSE j \in 1..Len(s) :
             /\ s[j] = "="
             /\ \A j2 \in 1..(j - 1) : s[j2] # "="
  IN SubSeq(s, i + 1, Len(s))

\* index of the last "." of a name, 0 when there is none (str.rfind, 1-based)
LastDot(name) ==
  IF \E i \in 1..Len(name) : name[i] = "."
    THEN CHOOSE i \in 1..Len(name) :
           /\ name[i] = "."
           /\ \A j \in (i + 1)..Len(name) : name[j] # "."
    ELSE 0

\* PurePath.suffix: the last dot counts unless it leads or ends the name
Suffix(name) ==
  LET i == LastDot(name)
  IN IF 1 < i /\ i < Len(name) THEN SubSeq(name, i, Len(name)) ELSE <<>>

\* PurePath.stem
Stem(name) ==
  LET i == LastDot(name)
  IN IF 1 < i /\ i < Len(name) THEN SubSeq(name, 1, i - 1) ELSE name

RECURSIVE Digits(_)
\* str(int) of a non-negative integer
Digits(n) ==
  IF n < 10 THEN <<DigitChars[n + 1]>>
  ELSE Digits(n \div 10) \o <<DigitChars[(n % 10) + 1]>>

\* string comparison by code points
StrLess(a, b) ==
  \/ /\ Len(a) < Len(b)
     /\ SubSeq(b, 1, Len(a)) = a
  \/ \E i \in 1..Len(a) :
       /\ i <= Len(b)
       /\ SubSeq(a, 1, i - 1) = SubSeq(b, 1, i - 1)
       /\ Ord(a[i]) < Ord(b[i])

----------------------------------------------------------------------------
(* Program constants *)

SIZES == <<1024, 512, 256, 128, 64, 32>>

SUPPORTED_SUFFIXES ==
  { <<".","j","p","g">>, <<".","j","p","e","g">>, <<".","p","n","g">>,
    <<".","w","e","b","p">>, <<".","b","m","p">>, <<".","t","i","f">>,
    <<".","t","i","f","f">>, <<".","h","e","i","c">> }

FIT == <<"f","i","t">>

COVER == <<"c","o","v","e","r">>


MODE_PREFIX == <<"-","-","m","o","d","e","=">>

\* exit_status while the process has not exited
Running == 0 - 1

\* fault value of a file that decodes, transforms and saves at every size
NoFault == Len(SIZES) + 1

----------------------------------------------------------------------------
(* File system *)

\* data of a regular file: the original it derives from, the transforms
\* applied to it, and the step of process_image at which handling it raises
\* (0: Image.open, i in 1..6: transform or save of SIZES[i], NoFault: never)
Data(orig, ops, fault) == [orig |-> orig, ops |-> ops, fault |-> fault]

NoData == Data(0, <<>>, NoFault)

FileEntry(name, data) == [name |-> name, kind |-> "file", data |-> data, sub |-> {}]

DirEntry(name, sub) == [name |-> name, kind |-> "dir", data |-> NoData, sub |-> sub]

InDirPath == <<"i","n">>

OutDirPath == <<"o","u","t">>

MissingPath == <<"n","o">>

PlainFilePath == <<"f">>

\* Path.exists() and Path.is_dir() of the in_dir argument
IsDir(f, path) == path \in DOMAIN f

\* out_dir.mkdir(parents=True, exist_ok=True)
Mkdir(f, path) == IF path \in DOMAIN f THEN f ELSE f @@ (path :> {})

\* writing a file replaces an entry of the same name
WriteFile(f, dir, name, data) ==
  [f EXCEPT ![dir] = {e \in @ : e.name # name} \cup {FileEntry(name, data)}]

Lookup(f, dir, name) == CHOOSE e \in f[dir] : e.name = name

----------------------------------------------------------------------------
(* main: argument handling and listing *)

\* ResolveMode without the lower() of line 69
ResolveMode_caseSensitive(a) ==
  IF Len(a) >= 4
    THEN LET m == a[4]
         IN IF m \in {FIT, MODE_PREFIX \o FIT} THEN FIT
            ELSE IF m \in {COVER, MODE_PREFIX \o COVER} THEN COVER
            ELSE IF StartsWith(m, MODE_PREFIX) THEN AfterFirstEq(m)
            ELSE m
    ELSE FIT

\* lines 66-77: the mode string main derives from the optional argument
ResolveMode(a) ==
  IF Len(a) >= 4
    THEN LET m == Lower(a[4])
         IN IF m \in {FIT, MODE_PREFIX \o FIT} THEN FIT
            ELSE IF m \in {COVER, MODE_PREFIX \o COVER} THEN COVER
            ELSE IF StartsWith(m, MODE_PREFIX) THEN AfterFirstEq(m)
            ELSE m
    ELSE FIT

\* SetupExit with the input directory checked before the mode
SetupExit_dirFirst(a, f) ==
  IF Len(a) < 3 THEN 1
  ELSE IF ~IsDir(f, a[2]) THEN 1
  ELSE IF Len(a) >= 4 /\ ResolveMode(a) \notin {FIT, COVER} THEN 2
  ELSE Running

\* lines 60-84: the status of the first failing setup check, Running if none
SetupExit(a, f) ==
  IF Len(a) < 3 THEN 1
  ELSE IF Len(a) >= 4 /\ ResolveMode(a) \notin {FIT, COVER} THEN 2
  ELSE IF ~IsDir(f, a[2]) THEN 1
  ELSE Running

\* the line printed with a failing setup check
SetupLine(a, f) ==
  IF Len(a) < 3 THEN "usage"
  ELSE IF Len(a) >= 4 /\ ResolveMode(a) \notin {FIT, COVER} THEN "badmode"
  ELSE "nodir"

\* IsImage without the is_file() test
IsImage_anyKind(e) == Lower(Suffix(e.name)) \in SUPPORTED_SUFFIXES

\* line 90: the filter of the listing
IsImage(e) == e.kind = "file" /\ Lower(Suffix(e.name)) \in SUPPORTED_SUFFIXES

RECURSIVE SortNames_descending(_)
\* SortNames with the comparison reversed
SortNames_descending(S) ==
  IF S = {} THEN <<>>
  ELSE LET m == CHOOSE x \in S : \A y \in S \ {x} : StrLess(y, x)
       IN <<m>> \o SortNames_descending(S \ {m})

RECURSIVE SortNames(_)
\* sorted(): ascending by name
SortNames(S) ==
  IF S = {} THEN <<>>
  ELSE LET m == CHOOSE x \in S : \A y \in S \ {x} : StrLess(x, y)
       IN <<m>> \o SortNames(S \ {m})

\* lines 88-91: iterdir yields the immediate entries only
ListImages(entries) == SortNames({e.name : e \in {x \in entries : IsImage(x)}})

Event(ev, name, size) == [ev |-> ev, name |-> name, size |-> size]

----------------------------------------------------------------------------
(* process_image *)

\* line 52: f"{in_path.stem}_{s}x{s}.png"
OutName(name, s) ==
  Stem(name) \o <<"_">> \o Digits(s) \o <<"x">> \o Digits(s) \o <<".","p","n","g">>

\* lines 47-50 and 54: the PNG saved for one size; a saved PNG decodes later
Transform(m, d, s) ==
  Data(d.orig,
       Append(d.ops, [t |-> IF m = COVER THEN "cover" ELSE "fit", size |-> s]),
       NoFault)

\* OnException without the try/except: the exception ends the process
OnException_uncaught(i) == [pc |-> "exit", idx |-> i, exit_status |-> 1]

\* lines 56-57: the exception is caught inside process_image, which returns
\* normally, so the loop of main goes on with the next file
OnException(i) == [pc |-> "loop", idx |-> i + 1, exit_status |-> Running]

----------------------------------------------------------------------------
(* Inputs *)

ProgName == <<"s">>

ModeArgs ==
  { FIT, <<"F","I","T">>, COVER, <<"C","o","v","e","r">>,
    MODE_PREFIX \o FIT, <<"-","-","M","O","D","E","=","F","i","t">>,
    MODE_PREFIX \o COVER, <<"-","-","M","o","d","e","=","C","O","V","E","R">>,
    <<>>, <<"f","i","t","s">>, <<"f","i","t"," ">>, <<"-","f","i","t">>,
    <<"m","o","d","e","=","f","i","t">>, MODE_PREFIX,
    MODE_PREFIX \o <<"x">>, MODE_PREFIX \o MODE_PREFIX \o FIT,
    <<"-","-","m","o","d","e","=","c","o","v","e","r","=">> }

\* mode arguments tried with every pair of directories
CommonModeArgs == {FIT, COVER, MODE_PREFIX \o <<"x">>}

ArgvPool ==
  {<<ProgName>>} \cup
  {<<ProgName, i>> : i \in {InDirPath, MissingPath}} \cup
  {<<ProgName, i, o>> : i \in {InDirPath, MissingPath, PlainFilePath},
                        o \in {InDirPath, OutDirPath}} \cup
  {<<ProgName, i, o, m>> : i \in {InDirPath, MissingPath, PlainFilePath},
                           o \in {InDirPath, OutDirPath}, m \in CommonModeArgs} \cup
  {<<ProgName, i, OutDirPath, m>> : i \in {InDirPath, MissingPath}, m \in ModeArgs}

\* names of regular files with an extension of the allow-list
ImagePool ==
  { <<"a",".","j","p","g">>, <<"a",".","p","n","g">>, <<"B",".","J","P","G">> }

\* other regular files: wrong extension, and ".png", a name without a suffix
OtherFilePool ==
  { <<"c",".","t","x","t">>, <<"d",".","g","i","f">>, <<".","p","n","g">> }

NestedName == <<"e",".","p","n","g">>

\* directories: one holding an image, one whose name ends in .png
DirPool == { <<"s","u","b">>, <<"x",".","p","n","g">> }

PoolNames == ImagePool \cup OtherFilePool \cup DirPool

OrigOf(name) ==
  CASE name = <<"a",".","j","p","g">> -> 1
    [] name = <<"a",".","p","n","g">> -> 2
    [] name = <<"B",".","J","P","G">> -> 3
    [] name = <<"c",".","t","x","t">> -> 4
    [] name = <<"d",".","g","i","f">> -> 5
    [] name = <<".","p","n","g">> -> 6
    [] OTHER -> 7

\* a text file does not decode as an image; the other non-image files would
OtherFault(name) == IF name = <<"c",".","t","x","t">> THEN 0 ELSE NoFault

PoolEntry(name, fault) ==
  IF name \in DirPool
    THEN DirEntry(name, IF name = <<"s","u","b">> THEN {NestedName} ELSE {})
  ELSE IF name \in ImagePool
    THEN FileEntry(name, Data(OrigOf(name), <<>>, fault[name]))
  ELSE FileEntry(name, Data(OrigOf(name), <<>>, OtherFault(name)))

Listings ==
  UNION { { {PoolEntry(n, fault) : n \in S} :
              fault \in [S \cap ImagePool -> 0..NoFault] } :
          S \in {T \in SUBSET PoolNames : Cardinality(T) <= MaxFiles} }

GeoIdle == [st |-> "idle", w |-> 0, h |-> 0, size |-> 0, swap |-> FALSE,
            iw |-> 0, ih |-> 0, left |-> 0, top |-> 0, side |-> 0,
            tw |-> 0, th |-> 0, x |-> 0, y |-> 0, cw |-> 0, ch |-> 0]

InitWith(args, listings) ==
  /\ argv \in args
  /\ \E l \in listings : fs = (InDirPath :> l)
  /\ pc = "main"
  /\ mode = FIT
  /\ in_dir = <<>>
  /\ out_dir = <<>>
  /\ images = <<>>
  /\ idx = 0
  /\ img = NoData
  /\ k = 0
  /\ exit_status = Running
  /\ log = <<>>
  /\ runs = 1
  /\ fs_start = fs
  /\ geo = GeoIdle

Init == InitWith(ArgvPool, Listings)

----------------------------------------------------------------------------
(* Actions *)

\* main, lines 60-97: setup checks, mkdir, listing, announcement
Main ==
  /\ pc = "main"
  /\ IF SetupExit(argv, fs) # Running
       THEN /\ exit_status' = SetupExit(argv, fs)
            /\ log' = Append(log, Event(SetupLine(argv, fs), <<>>, 0))
            /\ pc' = "exit"
            /\ UNCHANGED <<fs, mode, in_dir, out_dir, images, idx>>
       ELSE LET fs1 == Mkdir(fs, argv[3])
                imgs == ListImages(fs1[argv[2]])
            IN /\ in_dir' = argv[2]
               /\ out_dir' = argv[3]
               /\ mode' = ResolveMode(argv)
               /\ fs' = fs1
               /\ images' = imgs
               /\ IF imgs = <<>>
                    THEN /\ exit_status' = 0
                         /\ log' = Append(log, Event("nofiles", <<>>, 0))
                         /\ pc' = "exit"
                         /\ idx' = idx
                    ELSE /\ exit_status' = exit_status
                         /\ log' = Append(log, Event("batch", <<>>, Len(imgs)))
                         /\ pc' = "loop"
                         /\ idx' = 1
  /\ UNCHANGED <<argv, img, k, runs, fs_start, geo>>

\* the jump out of the try block on an exception, lines 56-57
Raise(name) ==
  /\ log' = log \o <<Event("call", name, 0), Event("fehler", name, 0)>>
  /\ pc' = OnException(idx).pc
  /\ idx' = OnException(idx).idx
  /\ exit_status' = OnException(idx).exit_status

\* line 99 and line 45: the next file is handed to process_image and opened
Open ==
  /\ pc = "loop"
  /\ idx <= Len(images)
  /\ LET name == images[idx]
         d == Lookup(fs, in_dir, name).data
     IN IF d.fault = 0
          THEN /\ Raise(name)
               /\ UNCHANGED <<img, k>>
          ELSE /\ log' = Append(log, Event("call", name, 0))
               /\ img' = d
               /\ k' = 1
               /\ pc' = "sizes"
               /\ UNCHANGED <<idx, exit_status>>
  /\ UNCHANGED <<argv, fs, mode, in_dir, out_dir, images, runs, fs_start, geo>>

\* lines 46-54: one iteration of the loop over SIZES
SaveSize ==
  /\ pc = "sizes"
  /\ k <= Len(SIZES)
  /\ LET name == images[idx]
         s == SIZES[k]
     IN IF img.fault = k
          THEN /\ log' = Append(log, Event("fehler", name, 0))
               /\ pc' = OnException(idx).pc
               /\ idx' = OnException(idx).idx
               /\ exit_status' = OnException(idx).exit_status
               /\ UNCHANGED <<fs, k>>
          ELSE /\ fs' = WriteFile(fs, out_dir, OutName(name, s), Transform(mode, img, s))
               /\ log' = Append(log, Event("write", name, s))
               /\ k' = k + 1
               /\ UNCHANGED <<pc, idx, exit_status>>
  /\ UNCHANGED <<argv, mode, in_dir, out_dir, images, img, runs, fs_start, geo>>

\* line 55: all sizes are saved
PrintOK ==
  /\ pc = "sizes"
  /\ k > Len(SIZES)
  /\ log' = Append(log, Event("ok", images[idx], 0))
  /\ pc' = "loop"
  /\ idx' = idx + 1
  /\ UNCHANGED <<argv, fs, mode, in_dir, out_dir, images, img, k,
                 exit_status, runs, fs_start, geo>>

\* the loop of line 98 is exhausted and main returns
Return ==
  /\ pc = "loop"
  /\ idx > Len(images)
  /\ pc' = "exit"
  /\ exit_status' = 0
  /\ UNCHANGED <<argv, fs, mode, in_dir, out_dir, images, idx, img, k,
                 log, runs, fs_start, geo>>

Next == Main \/ Open \/ SaveSize \/ PrintOK \/ Return

Spec == Init /\ [][Next]_vars

----------------------------------------------------------------------------
(* The two transforms, on image dimensions *)

Min(a, b) == IF a <= b THEN a ELSE b

Max(a, b) == IF a >= b THEN a ELSE b

Abs(a) == IF a >= 0 THEN a ELSE 0 - a

\* math.ceil(a / b) for positive b
CeilDiv(a, b) == (a + b - 1) \div b

\* ImageOps.exif_transpose: EXIF orientations 5 to 8 exchange width and height
exif_transpose(w, h, swap) == IF swap THEN <<h, w>> ELSE <<w, h>>

\* CropBox without the halving of the offsets
CropBox_notCentered(w, h) ==
  LET side == IF w <= h THEN w ELSE h
  IN [side |-> side, left |-> w - side, top |-> h - side]

\* lines 34-37: the crop box of make_square_cover
CropBox(w, h) ==
  LET side == Min(w, h)
  IN [side |-> side, left |-> (w - side) \div 2, top |-> (h - side) \div 2]

\* thumbnail replaced by a resize to the full square
thumbnail_stretch(w, h, size) == <<size, size>>

\* Image.thumbnail((size, size)) of line 24: the image is left alone when it
\* fits, and else one side is the bound and the other is the floor or the
\* ceiling of the exact scaled length, whichever is nearer in aspect ratio,
\* and at least 1 (ratios compared exactly here)
thumbnail(w, h, size) ==
  IF size >= w /\ size >= h THEN <<w, h>>
  ELSE IF h >= w
    THEN LET f == (size * w) \div h
             c == CeilDiv(size * w, h)
             n == IF Abs(w * size - f * h) <= Abs(w * size - c * h) THEN f ELSE c
         IN <<Max(n, 1), size>>
    ELSE LET f == (size * h) \div w
             c == CeilDiv(size * h, w)
             n == IF f = 0 \/ Abs(w * f - size * h) * c <= Abs(w * c - size * h) * f
                    THEN f ELSE c
         IN <<size, Max(n, 1)>>

\* lines 26-27: where the thumbnail is pasted along one axis
PasteOffset(size, t) == (size - t) \div 2

\* make_square_cover, lines 31-41: dimensions of the crop and of the result
make_square_cover(g) ==
  LET d == exif_transpose(g.w, g.h, g.swap)
      b == CropBox(d[1], d[2])
  IN [g EXCEPT !.st = "cover", !.iw = d[1], !.ih = d[2],
               !.side = b.side, !.left = b.left, !.top = b.top,
               !.cw = g.size, !.ch = g.size]

\* make_square_fit, lines 19-29: dimensions of the content, its place and
\* the canvas
make_square_fit(g) ==
  LET d == exif_transpose(g.w, g.h, g.swap)
      t == thumbnail(d[1], d[2], g.size)
  IN [g EXCEPT !.st = "fit", !.iw = d[1], !.ih = d[2],
               !.tw = t[1], !.th = t[2],
               !.x = PasteOffset(g.size, t[1]), !.y = PasteOffset(g.size, t[2]),
               !.cw = g.size, !.ch = g.size]

\* source dimensions beyond 1..MaxDim: around the sizes, the 800x600 photo of
\* the scenarios, and long thin images
ExtraDims == {31, 33, 63, 65, 100, 600, 800, 1023, 1025, 3000}

Dims == (1..MaxDim) \cup ExtraDims

SizeSet == {SIZES[i] : i \in 1..Len(SIZES)}

InitGeom ==
  /\ argv = <<ProgName>>
  /\ fs = (InDirPath :> {})
  /\ pc = "idle"
  /\ mode = FIT
  /\ in_dir = <<>>
  /\ out_dir = <<>>
  /\ images = <<>>
  /\ idx = 0
  /\ img = NoData
  /\ k = 0
  /\ exit_status = Running
  /\ log = <<>>
  /\ runs = 1
  /\ fs_start = fs
  /\ \E w \in Dims, h \in Dims, s \in SizeSet, sw \in BOOLEAN :
       geo = [GeoIdle EXCEPT !.st = "in", !.w = w, !.h = h, !.size = s, !.swap = sw]

Fit ==
  /\ geo.st = "in"
  /\ geo' = make_square_fit(geo)
  /\ UNCHANGED batchVars

Cover ==
  /\ geo.st = "in"
  /\ geo' = make_square_cover(geo)
  /\ UNCHANGED batchVars

NextGeom == Fit \/ Cover

SpecGeom == InitGeom /\ [][NextGeom]_vars

----------------------------------------------------------------------------
(* Running the program a second time with the same arguments *)

\* a new process: main starts again on the file system the first run left
Rerun ==
  /\ pc = "exit"
  /\ runs = 1
  /\ runs' = runs + 1
  /\ fs_start' = fs
  /\ pc' = "main"
  /\ mode' = FIT
  /\ in_dir' = <<>>
  /\ out_dir' = <<>>
  /\ images' = <<>>
  /\ idx' = 0
  /\ img' = NoData
  /\ k' = 0
  /\ exit_status' = Running
  /\ log' = <<>>
  /\ UNCHANGED <<argv, fs, geo>>

NextRerun == Next \/ Rerun

SpecRerun == Init /\ [][NextRerun]_vars

----------------------------------------------------------------------------
(* Properties of the batch run *)

StatusEvents == {"ok", "fehler"}

\* the status lines, in the order printed
StatusLines == SelectSeq(log, LAMBDA e : e.ev \in StatusEvents)

Processing == \E p \in 1..Len(log) : log[p].ev = "batch"

\* the output of one (source, size) pair is in the output directory
HasOutput(name, s) ==
  \E e \in fs[out_dir] :
     /\ e.name = OutName(name, s)
     /\ e.data = Transform(mode, Lookup(fs, in_dir, name).data, s)

WrittenBefore(name, s, p) ==
  \E q \in 1..(p - 1) : log[q] = Event("write", name, s)

\* C1: after the run, a source file with a FEHLER line has no output file
\* in the output directory, whichever step of process_image failed.
C1_FailedFileLeavesNoOutput ==
  pc = "exit" =>
    \A p \in 1..Len(log) :
      log[p].ev = "fehler" =>
        \A j \in 1..Len(SIZES) : ~HasOutput(log[p].name, SIZES[j])

\* C2: N matched files that all process without error, written to a fresh
\* output directory, leave exactly N x 6 output files, one per (source, size).
C2_ExactlyNTimesSixOutputs ==
  ( /\ pc = "exit"
    /\ Processing
    /\ out_dir = OutDirPath
    /\ \A p \in 1..Len(log) : log[p].ev # "fehler" )
  => /\ Cardinality(fs[out_dir]) = Len(images) * Len(SIZES)
     /\ \A i \in 1..Len(images), j \in 1..Len(SIZES) :
          HasOutput(images[i], SIZES[j])

\* C3: a failing file never aborts the batch: every matched file is passed
\* to process_image, every file without a fault gets all six sizes written,
\* and the process never exits with a failure status once files are handled.
C3_FailureNeverAbortsBatch ==
  /\ Processing => exit_status \in {Running, 0}
  /\ (pc = "exit" /\ Processing) =>
       \A i \in 1..Len(images) :
         /\ \E p \in 1..Len(log) : log[p] = Event("call", images[i], 0)
         /\ Lookup(fs, in_dir, images[i]).data.fault = NoFault =>
              \A j \in 1..Len(SIZES) :
                WrittenBefore(images[i], SIZES[j], Len(log) + 1)

\* a run in which a file failed and a later file got all its outputs
C3_Witness ==
  /\ pc = "exit"
  /\ exit_status = 0
  /\ \E p, q \in 1..Len(log) :
       /\ p < q
       /\ log[p].ev = "fehler"
       /\ log[q].ev = "ok"

\* the mode arguments of the inputs that the program accepts
FitArgs ==
  { <<"f","i","t">>, <<"F","I","T">>,
    <<"-","-","m","o","d","e","=","f","i","t">>,
    <<"-","-","M","O","D","E","=","F","i","t">> }

CoverArgs ==
  { <<"c","o","v","e","r">>, <<"C","o","v","e","r">>,
    <<"-","-","m","o","d","e","=","c","o","v","e","r">>,
    <<"-","-","M","o","d","e","=","C","O","V","E","R">> }

BadModeArg == Len(argv) >= 4 /\ argv[4] \notin (FitArgs \cup CoverArgs)

NoInputDir == argv[2] \in {MissingPath, PlainFilePath}

NoMatch == \A e \in fs_start[InDirPath] : e.name \notin ImagePool

\* the process has exited with status st from the setup of main: no file
\* was handed to process_image and no file was written
SetupExitWith(st) ==
  /\ pc = "exit"
  /\ exit_status = st
  /\ \A p \in 1..Len(log) : log[p].ev \notin {"call", "write", "ok", "fehler"}
  /\ \A d \in DOMAIN fs : fs[d] = IF d \in DOMAIN fs_start THEN fs_start[d] ELSE {}

\* C4: the setup checks run in the order argument count, mode, input
\* directory, match set; the first failing one decides the exit status
\* (1, 2, 1, 0) and no file is processed or written.
C4_SetupChecksInOrder ==
  pc # "main" =>
    /\ Len(argv) < 3 => SetupExitWith(1)
    /\ (Len(argv) >= 3 /\ BadModeArg) => SetupExitWith(2)
    /\ (Len(argv) >= 3 /\ ~BadModeArg /\ NoInputDir) => SetupExitWith(1)
    /\ (Len(argv) >= 3 /\ ~BadModeArg /\ ~NoInputDir /\ NoMatch) => SetupExitWith(0)

\* an unrecognized mode together with a missing input directory
C4_Witness ==
  /\ pc = "exit"
  /\ exit_status = 2
  /\ Len(argv) >= 4
  /\ argv[2] = MissingPath

\* every output written in this run was made with transform t
AllOutputsMadeWith(t) ==
  \A d \in DOMAIN fs : \A e \in fs[d] :
    e.data.ops # <<>> => e.data.ops[Len(e.data.ops)].t = t

\* C5: no third argument, or fit / --mode=fit in any letter case, gives fit;
\* cover / --mode=cover in any letter case gives cover; any other string
\* exits with status 2; all files of a run are transformed in that one mode.
C5_ModeResolution ==
  (pc # "main" /\ Len(argv) >= 3) =>
    /\ (Len(argv) = 3 \/ (Len(argv) >= 4 /\ argv[4] \in FitArgs)) =>
         /\ exit_status # 2
         /\ Processing => mode = FIT /\ AllOutputsMadeWith("fit")
    /\ (Len(argv) >= 4 /\ argv[4] \in CoverArgs) =>
         /\ exit_status # 2
         /\ Processing => mode = COVER /\ AllOutputsMadeWith("cover")
    /\ BadModeArg => pc = "exit" /\ exit_status = 2 /\ ~Processing

\* a cover run requested in mixed case that wrote a file's outputs
C5_Witness ==
  /\ pc = "exit"
  /\ Len(argv) >= 4
  /\ argv[4] = <<"-","-","M","o","d","e","=","C","O","V","E","R">>
  /\ \E p \in 1..Len(log) : log[p].ev = "ok"
  /\ \E e \in fs[out_dir] : e.data.ops # <<>>

\* the output names of the listed images
ImageOutNames == {OutName(n, SIZES[j]) : n \in ImagePool, j \in 1..Len(SIZES)}

\* C6: only immediate regular files with an allow-listed extension are
\* processed; no other entry is passed to process_image, gets an output
\* file, or appears in an OK or FEHLER line.
C6_OnlyListedImagesProcessed ==
  /\ \A p \in 1..Len(log) :
       log[p].ev \in {"call", "write", "ok", "fehler"} => log[p].name \in ImagePool
  /\ \A i \in 1..Len(images) : images[i] \in ImagePool
  /\ \A d \in DOMAIN fs : \A e \in fs[d] :
       e.data.ops # <<>> =>
         /\ e.data.orig \in {OrigOf(n) : n \in ImagePool}
         /\ e.name \in ImageOutNames

\* a finished run over a directory that holds an image and another entry
C6_Witness ==
  /\ pc = "exit"
  /\ \E p \in 1..Len(log) : log[p].ev \in StatusEvents
  /\ \E e \in fs_start[InDirPath] : e.name \notin ImagePool

\* C7: matched files are processed in ascending name order, each gets
\* exactly one status line in that order, OK exactly when all six sizes were
\* written, and no output of a later file precedes an earlier file's line.
C7_OrderedStatusLines ==
  /\ \A i, j \in 1..Len(images) : i < j => StrLess(images[i], images[j])
  /\ Processing =>
       {images[i] : i \in 1..Len(images)} =
         {e.name : e \in {x \in fs_start[InDirPath] : x.name \in ImagePool}}
  /\ LET lines == StatusLines
     IN /\ Len(lines) <= Len(images)
        /\ \A i \in 1..Len(lines) : lines[i].name = images[i]
        /\ (pc = "exit" /\ Processing) => Len(lines) = Len(images)
  /\ \A p \in 1..Len(log) :
       log[p].ev \in StatusEvents =>
         (log[p].ev = "ok" <=>
            \A j \in 1..Len(SIZES) : WrittenBefore(log[p].name, SIZES[j], p))
  /\ \A q \in 1..Len(log), i, j \in 1..Len(images) :
       (log[q].ev = "write" /\ log[q].name = images[j] /\ i < j) =>
         \E p \in 1..(q - 1) :
           log[p].ev \in StatusEvents /\ log[p].name = images[i]

\* a finished run over two files, one failing and one succeeding
C7_Witness ==
  /\ pc = "exit"
  /\ Len(images) >= 2
  /\ \E p \in 1..Len(log) : log[p].ev = "ok"
  /\ \E p \in 1..Len(log) : log[p].ev = "fehler"

\* C8: a second run with the same arguments leaves the output directory
\* with the same files and contents as the first run left.
C8_RerunIdempotent ==
  (runs = 2 /\ pc = "exit" /\ Len(argv) >= 3) =>
    \A d \in DOMAIN fs \cap {argv[3]} :
      /\ d \in DOMAIN fs_start
      /\ fs[d] = fs_start[d]

----------------------------------------------------------------------------
(* Properties of the transforms *)

\* C9: make_square_cover crops the largest centered square: the box lies
\* inside the image, starts at 0 along the shorter axis, leaves margins on
\* the longer axis that differ by at most 1, and the result is size x size;
\* an 800x600 image is cropped to the 600x600 region at (100, 0).
C9_CoverCropsCenteredSquare ==
  geo.st = "cover" =>
    /\ geo.iw = (IF geo.swap THEN geo.h ELSE geo.w)
    /\ geo.ih = (IF geo.swap THEN geo.w ELSE geo.h)
    /\ geo.side <= geo.iw /\ geo.side <= geo.ih
    /\ geo.side = geo.iw \/ geo.side = geo.ih
    /\ geo.left >= 0 /\ geo.top >= 0
    /\ geo.left + geo.side <= geo.iw
    /\ geo.top + geo.side <= geo.ih
    /\ geo.iw <= geo.ih => geo.left = 0
    /\ geo.ih <= geo.iw => geo.top = 0
    /\ Abs(geo.left - (geo.iw - geo.side - geo.left)) <= 1
    /\ Abs(geo.top - (geo.ih - geo.side - geo.top)) <= 1
    /\ geo.cw = geo.size /\ geo.ch = geo.size
    /\ (geo.iw = 800 /\ geo.ih = 600) =>
         (geo.left = 100 /\ geo.top = 0 /\ geo.side = 600)

\* the 800x600 photo in cover mode at size 256
C9_Witness ==
  /\ geo.st = "cover"
  /\ geo.w = 800 /\ geo.h = 600 /\ ~geo.swap
  /\ geo.size = 256
  /\ geo.left = 100

\* C10: make_square_fit returns a size x size canvas; the content is at
\* most size wide and high, never larger than the source, pasted at
\* non-negative centered offsets wholly inside the canvas with opposite
\* paddings differing by at most 1, and keeps the source's aspect ratio to
\* within one pixel; 800x600 at 128 gives 128x96 content at (0, 16).
C10_FitLetterboxesCentered ==
  geo.st = "fit" =>
    /\ geo.iw = (IF geo.swap THEN geo.h ELSE geo.w)
    /\ geo.ih = (IF geo.swap THEN geo.w ELSE geo.h)
    /\ geo.cw = geo.size /\ geo.ch = geo.size
    /\ geo.tw >= 1 /\ geo.th >= 1
    /\ geo.tw <= geo.size /\ geo.th <= geo.size
    /\ geo.tw <= geo.iw /\ geo.th <= geo.ih
    /\ (geo.iw <= geo.size /\ geo.ih <= geo.size) =>
         (geo.tw = geo.iw /\ geo.th = geo.ih)
    /\ geo.x >= 0 /\ geo.y >= 0
    /\ geo.x + geo.tw <= geo.cw
    /\ geo.y + geo.th <= geo.ch
    /\ Abs(geo.x - (geo.cw - geo.tw - geo.x)) <= 1
    /\ Abs(geo.y - (geo.ch - geo.th - geo.y)) <= 1
    /\ Abs(geo.tw * geo.ih - geo.th * geo.iw) <= Max(geo.iw, geo.ih)
    /\ (geo.iw = 800 /\ geo.ih = 600 /\ geo.size = 128) =>
         (geo.tw = 128 /\ geo.th = 96 /\ geo.x = 0 /\ geo.y = 16)

\* the 800x600 photo in fit mode at size 128
C10_Witness ==
  /\ geo.st = "fit"
  /\ geo.w = 800 /\ geo.h = 600 /\ ~geo.swap
  /\ geo.size = 128
  /\ geo.tw = 128 /\ geo.th = 96
  /\ geo.y = 16

====
